---- MODULE Spec2Model ----
(***************************************************************************)
(* Home Digital Twin: the training run (train_models.py) that writes the   *)
(* next-day forecast data/next_day_prediction.csv, and the dashboard       *)
(* (app.py) that reads it, classifies the selected hour and explains the   *)
(* decision.                                                               *)
(*                                                                         *)
(* Fixed point: a timestamp is a number of minutes, a price a number of    *)
(* cents per kWh (0.5 is 50), a load a number of hundredths of a kW. All   *)
(* modelled loads are multiples of ten, so that the product with 0.7 is    *)
(* exact. hour_sin and hour_cos are thousandths. A contribution of the     *)
(* explanation is a number of 1/3000.                                      *)
(* Rounding of the binary floating point is not modelled: the arithmetic   *)
(* is exact.                                                               *)
(***************************************************************************)
EXTENDS Integers, Sequences, FiniteSets, TLC

VARIABLES
    history,         \* data/PPO_SYNTHETIC_DATASET.csv: [last, target]
    pc,              \* position of the training script
    models,          \* train_models.py: models, one fitted regressor per appliance
    last_timestamp,  \* train_models.py: last_timestamp
    future_df,       \* train_models.py: future_df, a sequence of rows (column -> value)
    app_i,           \* index of the prediction loop over appliances
    csv,             \* data/next_day_prediction.csv: what each completed run wrote
                     \* to it, in order; the file is absent when <<>>, else the last
    page,            \* app.py: what the page shows: "blank", "error" or "decision"
    hour_idx,        \* app.py: hour_idx (the slider)
    row,             \* app.py: row = df.iloc[hour_idx]
    price,           \* app.py: price
    available_apps,  \* app.py: available_apps
    total_raw_load,  \* app.py: total_raw_load
    status,          \* app.py: status
    reduction,       \* app.py: reduction (0 when the branch does not set it)
    optimized_load,  \* app.py: optimized_load
    contributions,   \* app.py: contributions
    primary          \* app.py: np.argmax(contributions), 1-based

trainVars == <<history, pc, models, last_timestamp, future_df, app_i, csv>>
dashVars == <<page, hour_idx, row, price, available_apps, total_raw_load, status,
              reduction, optimized_load, contributions, primary>>
vars == <<trainVars, dashVars>>

----------------------------------------------------------------------------
(* Bounds of the model *)

\* last_timestamp ranges over the half hours 0, 30, ..., 30 * MaxStart
MaxStart == 47
\* the historical data sets differ in what the regressors learned: 0..MaxTarget
MaxTarget == 1
\* the output sequences of the random generator that are explored: 0..MaxStream
MaxStream == 2
\* a regressor's raw output is 10 * (-PredNeg .. PredSpan - PredNeg - 1)
PredSpan == 6
PredNeg == 2
\* training runs on the same historical data
MaxRuns == 2
\* rows of a forecast file given to the dashboard that no training run wrote
MaxRows == 3

----------------------------------------------------------------------------
(* Program constants *)

appliances == <<"Fridge", "Heater", "Fans", "Lights", "TV", "Microwave", "Washing Machine">>
features == <<"hour_sin", "hour_cos", "occupancy", "electricity_price">>
Horizon == 24
HighTariff == 65
LowTariff == 25
PriceThreshold == 50
\* the "DR Target (1.0 kW)" line of the forecast chart
DRTarget == 100
PEAK == "CRITICAL (PEAK)"
OFFPEAK == "OPTIMIZED (OFF-PEAK)"
feat_names == <<"Electricity Price", "Total Demand", "Occupancy", "Hour of Day">>

\* the column order of the frame train_models.py builds, which to_csv keeps
ColumnOrder == <<"datetime", "hour", "hour_sin", "hour_cos", "occupancy",
                 "electricity_price">> \o appliances

----------------------------------------------------------------------------
(* Helpers *)

Range(s) == {s[i] : i \in DOMAIN s}

Idx(a) == CHOOSE i \in DOMAIN appliances : appliances[i] = a

Abs(x) == IF x < 0 THEN -x ELSE x

\* 1000 * sin(2 pi h / 24), h = 0..23, rounded
SinMilli == <<0, 259, 500, 707, 866, 966, 1000, 966, 866, 707, 500, 259,
              0, -259, -500, -707, -866, -966, -1000, -966, -866, -707, -500, -259>>

\* .dt.hour of a timestamp
Hour(t) == (t \div 60) % 24

HourSin(h) == SinMilli[h + 1]
HourCos(h) == SinMilli[((h + 6) % 24) + 1]

\* df[name] = vals
AddColumn(df, name, vals) ==
    [i \in DOMAIN df |->
        [c \in (DOMAIN df[i]) \cup {name} |-> IF c = name THEN vals[i] ELSE df[i][c]]]

----------------------------------------------------------------------------
(* train_models.py *)

Datasets == [last : {30 * k : k \in 0..MaxStart}, target : 0..MaxTarget]

\* model.fit(X, y): XGBoost's fit is a function of the data alone
Fit(h) == [a \in Range(appliances) |-> [target |-> h.target, app |-> a]]

\* models[app].predict(X_future) for one row. The regressor is learned from data
\* the repository does not hold: it is one of a bounded family of functions of
\* the four features, outputs below zero included.
XGBPredict(model, x) ==
    LET s == model.target * (Idx(model.app) + 1) + Idx(model.app) + 2 * x[3]
             + (IF x[4] >= 50 THEN 3 ELSE 0) + (IF x[1] >= 0 THEN 1 ELSE 0)
    IN  10 * ((s % PredSpan) - PredNeg)

\* Clip as a slip would have it: the clamp left out
ClipNone(v) == v

\* Series.clip(lower=0)
Clip(v) == IF v < 0 THEN 0 ELSE v

\* FutureDates as a slip would have it: range(0, 24), the forecast starts at last_timestamp itself
FutureDatesFromLast(last) == [i \in 1..Horizon |-> last + 60 * (i - 1)]

\* [last_timestamp + timedelta(hours=i) for i in range(1, 25)]
FutureDates(last) == [i \in 1..Horizon |-> last + 60 * i]

\* the raw output of the unseeded global generator at its i-th call
RawDraw(k, i) == k * i + (k \div 2)

\* np.random.randint(lo, hi): lo <= result < hi
Randint(lo, hi, u) == lo + (u % (hi - lo))

SimOccupancy(h, u) ==
    IF (7 <= h /\ h <= 9) \/ (18 <= h /\ h <= 22) THEN Randint(3, 6, u) ELSE Randint(1, 3, u)

\* SimPrice as a slip would have it: the occupancy windows (7..9) used for the tariff
SimPriceOccupancyWindow(h) ==
    IF (7 <= h /\ h <= 9) \/ (18 <= h /\ h <= 22) THEN HighTariff ELSE LowTariff

SimPrice(h) ==
    IF (7 <= h /\ h <= 10) \/ (18 <= h /\ h <= 22) THEN HighTariff ELSE LowTariff

\* future_df[features] of row i
XFuture(r) == [j \in DOMAIN features |-> r[features[j]]]

\* DataFrame.to_csv(index=False): a header line and one line of cells per row,
\* in the frame's column order
ToCsv(df) ==
    LET header == SelectSeq(ColumnOrder, LAMBDA c : c \in DOMAIN df[1])
    IN  [header |-> header,
         rows |-> [i \in DOMAIN df |-> [j \in DOMAIN header |-> df[i][header[j]]]]]

\* lines 11-41: load the history, fit one regressor per appliance
LoadAndFit ==
    /\ pc = "load"
    /\ models' = Fit(history)
    /\ pc' = "dates"
    /\ UNCHANGED <<history, last_timestamp, future_df, app_i, csv>>
    /\ UNCHANGED dashVars

\* lines 45-51
GenerateDates ==
    /\ pc = "dates"
    /\ last_timestamp' = history.last
    /\ LET dates == FutureDates(history.last)
           d0 == [i \in 1..Horizon |-> [c \in {"datetime"} |-> dates[i]]]
           d1 == AddColumn(d0, "hour", [i \in 1..Horizon |-> Hour(d0[i]["datetime"])])
           d2 == AddColumn(d1, "hour_sin", [i \in 1..Horizon |-> HourSin(d1[i]["hour"])])
       IN  future_df' = AddColumn(d2, "hour_cos", [i \in 1..Horizon |-> HourCos(d2[i]["hour"])])
    /\ pc' = "occupancy"
    /\ UNCHANGED <<history, models, app_i, csv>>
    /\ UNCHANGED dashVars

\* line 55: np.random is never seeded, so the draws are any the generator can give
SimulateOccupancy ==
    /\ pc = "occupancy"
    /\ \E k \in 0..MaxStream :
          future_df' = AddColumn(future_df, "occupancy",
              [i \in DOMAIN future_df |-> SimOccupancy(future_df[i]["hour"], RawDraw(k, i))])
    /\ pc' = "price"
    /\ UNCHANGED <<history, models, last_timestamp, app_i, csv>>
    /\ UNCHANGED dashVars

\* line 58
SimulatePrice ==
    /\ pc = "price"
    /\ future_df' = AddColumn(future_df, "electricity_price",
          [i \in DOMAIN future_df |-> SimPrice(future_df[i]["hour"])])
    /\ pc' = "predict"
    /\ app_i' = 1
    /\ UNCHANGED <<history, models, last_timestamp, csv>>
    /\ UNCHANGED dashVars

\* lines 61-65: one turn of the loop over appliances
PredictApp ==
    /\ pc = "predict"
    /\ app_i <= Len(appliances)
    /\ LET app == appliances[app_i]
       IN  future_df' = AddColumn(future_df, app,
              [i \in DOMAIN future_df |->
                  Clip(XGBPredict(models[app], XFuture(future_df[i])))])
    /\ app_i' = app_i + 1
    /\ UNCHANGED <<history, pc, models, last_timestamp, csv>>
    /\ UNCHANGED dashVars

\* lines 68-69
Save ==
    /\ pc = "predict"
    /\ app_i > Len(appliances)
    /\ csv' = Append(csv, ToCsv(future_df))
    /\ pc' = "done"
    /\ models' = <<>>          \* the process exits: its memory is gone
    /\ future_df' = <<>>
    /\ last_timestamp' = 0
    /\ app_i' = 0
    /\ UNCHANGED history
    /\ UNCHANGED dashVars

\* the script is run again on the same historical file
Rerun ==
    /\ pc = "done"
    /\ Len(csv) < MaxRuns
    /\ pc' = "load"
    /\ UNCHANGED <<history, models, last_timestamp, future_df, app_i, csv>>
    /\ UNCHANGED dashVars

Train == LoadAndFit \/ GenerateDates \/ SimulateOccupancy \/ SimulatePrice \/ PredictApp \/ Save

----------------------------------------------------------------------------
(* app.py *)

\* pd.read_csv: the cells of each line keyed by the header
ReadCsv(file) ==
    [i \in DOMAIN file.rows |->
        [c \in Range(file.header) |->
            file.rows[i][CHOOSE j \in DOMAIN file.header : file.header[j] = c]]]

\* RowGet as a slip would have it: a key that names no column of the file, so always the default
RowGetDefault(r, key, default) == default

\* row.get(key, default)
RowGet(r, key, default) == IF key \in DOMAIN r THEN r[key] ELSE default

\* AvailableApps as a slip would have it: the last appliance of the list is left out
AvailableAppsShort(r) ==
    SelectSeq(SubSeq(appliances, 1, Len(appliances) - 1), LAMBDA a : a \in DOMAIN r)

\* [app for app in appliances if app in row.index]
AvailableApps(r) == SelectSeq(appliances, LAMBDA a : a \in DOMAIN r)

\* r[cols].sum(): the sum of the first n of the columns cols
RECURSIVE SumFirst(_, _, _)
SumFirst(r, cols, n) ==
    IF n = 0 THEN 0 ELSE SumFirst(r, cols, n - 1) + r[cols[n]]

RowSum(r, cols) == SumFirst(r, cols, Len(cols))

\* x * 0.7
Times07(x) == (x * 7) \div 10

\* IsPeak as a slip would have it: the boundary excluded
IsPeakExclusive(p) == p > PriceThreshold

\* the condition of line 72
IsPeak(p) == p >= PriceThreshold

\* line 75
Reduction(r) == Times07(RowGet(r, "Heater", 0)) + Times07(RowGet(r, "Washing Machine", 0))

\* lines 135-140, in 1/3000
Contributions(r, p, total, idx) ==
    <<p * 45, total * 6, RowGet(r, "occupancy", 1) * 300, Abs(12 - idx) * 50>>

\* ArgMax as a slip would have it: argmin
ArgMin(s) ==
    CHOOSE i \in DOMAIN s :
        /\ \A j \in DOMAIN s : s[i] <= s[j]
        /\ \A j \in DOMAIN s : j < i => s[i] < s[j]

\* np.argmax: the first index of the greatest element
ArgMax(s) ==
    CHOOSE i \in DOMAIN s :
        /\ \A j \in DOMAIN s : s[j] <= s[i]
        /\ \A j \in DOMAIN s : j < i => s[j] < s[i]

\* lines 56-57: no forecast file
DashboardNoData ==
    /\ csv = <<>>
    /\ page' = "error"
    /\ UNCHANGED <<hour_idx, row, price, available_apps, total_raw_load, status,
                   reduction, optimized_load, contributions, primary>>
    /\ UNCHANGED trainVars

\* lines 59-162: one run of the page with the slider at h
Dashboard(h) ==
    /\ csv # <<>>
    /\ h \in 0..(Len(csv[Len(csv)].rows) - 1)   \* the slider: 0 .. len(df) - 1
    /\ hour_idx' = h
    /\ row' = ReadCsv(csv[Len(csv)])[h + 1]
    /\ price' = RowGet(row', "electricity_price", 0)
    /\ available_apps' = AvailableApps(row')
    /\ total_raw_load' = RowSum(row', available_apps')
    /\ IF IsPeak(price')
          THEN /\ status' = PEAK
               /\ reduction' = Reduction(row')
               /\ optimized_load' = total_raw_load' - reduction'
          ELSE /\ status' = OFFPEAK
               /\ reduction' = 0
               /\ optimized_load' = total_raw_load'
    /\ contributions' = Contributions(row', price', total_raw_load', hour_idx')
    /\ primary' = ArgMax(contributions')
    /\ page' = "decision"
    /\ UNCHANGED trainVars

View == DashboardNoData \/ \E h \in 0..(Horizon - 1) : Dashboard(h)

----------------------------------------------------------------------------
(* Specifications *)

DashInit ==
    /\ page = "blank"
    /\ hour_idx = 0
    /\ row = <<>>
    /\ price = 0
    /\ available_apps = <<>>
    /\ total_raw_load = 0
    /\ status = ""
    /\ reduction = 0
    /\ optimized_load = 0
    /\ contributions = <<>>
    /\ primary = 0

TrainInit ==
    /\ history \in Datasets
    /\ pc = "load"
    /\ models = <<>>
    /\ last_timestamp = 0
    /\ future_df = <<>>
    /\ app_i = 0
    /\ csv = <<>>

\* one training run, and the dashboard open beside it
Init == TrainInit /\ DashInit
Next == Train \/ View
Spec == Init /\ [][Next]_vars

\* the training script run repeatedly on one historical file
NextRuns == Train \/ Rerun
SpecRuns == Init /\ [][NextRuns]_vars

\* the dashboard alone, on a forecast file that no training run wrote: each
\* appliance column absent or present, loads below zero included
LoadIn == {-50, 100}
PriceIn == {49, 50}
OccIn == {5}

InVals(c) == IF c = "electricity_price" THEN PriceIn ELSE IF c = "occupancy" THEN OccIn ELSE LoadIn

InputRows ==
    LET over(cols) == UNION {{f \in [S -> UNION {InVals(c) : c \in cols}] :
                                 \A c \in S : f[c] \in InVals(c)} : S \in SUBSET cols}
    IN  {[c \in (DOMAIN a) \cup (DOMAIN e) |-> IF c \in DOMAIN a THEN a[c] ELSE e[c]] :
            a \in over(Range(appliances)), e \in over({"electricity_price", "occupancy"})}

InputFiles == {ToCsv([i \in 1..n |-> r]) : n \in 1..MaxRows, r \in {x \in InputRows : DOMAIN x # {}}}

InitApp ==
    /\ history = [last |-> 0, target |-> 0]
    /\ pc = "idle"
    /\ models = <<>>
    /\ last_timestamp = 0
    /\ future_df = <<>>
    /\ app_i = 0
    /\ csv \in {<<>>} \cup {<<f>> : f \in InputFiles}
    /\ DashInit
NextApp == View
SpecApp == InitApp /\ [][NextApp]_vars

----------------------------------------------------------------------------
(* What the claims are stated over *)

\* the forecast file now on disk, as the dashboard reads it
Artifact == ReadCsv(csv[Len(csv)])

\* the line of the file that the slider selects
SelectedRow == Artifact[hour_idx + 1]

\* hour of day of a timestamp, from the minutes of its day
HourOfDay(t) == (t % 1440) \div 60

\* the peak windows of the tariff, by hour of day
PeakWindow == (7..10) \cup (18..22)

\* what appliance a adds to the load of row r: its cell, or nothing without the column
Contribution(r, a) == IF a \in DOMAIN r THEN r[a] ELSE 0

RECURSIVE SetSum(_, _)
SetSum(f, S) ==
    IF S = {} THEN 0
    ELSE LET x == CHOOSE y \in S : TRUE IN f[x] + SetSum(f, S \ {x})

\* the sum of the per-appliance loads of row r over the canonical appliance set
CanonicalTotal(r) ==
    SetSum([a \in Range(appliances) |-> Contribution(r, a)], Range(appliances))

Max(a, b) == IF a >= b THEN a ELSE b

\* df holds the 24 hours that follow last, one row each
NextDay(df, last) ==
    /\ DOMAIN df = 1..24
    /\ \A i \in 1..24 : df[i]["datetime"] = last + 60 * i
    /\ \A i, j \in 1..24 : i < j => df[i]["datetime"] < df[j]["datetime"]
    /\ \A h \in 0..23 : Cardinality({i \in 1..24 : df[i]["hour"] = h}) = 1

\* every row of df that has a price has the tariff of its hour of day
TwoTariffs(df) ==
    \A i \in DOMAIN df :
        "electricity_price" \in DOMAIN df[i] =>
            df[i]["electricity_price"] =
                IF HourOfDay(df[i]["datetime"]) \in PeakWindow THEN 65 ELSE 25

----------------------------------------------------------------------------
(* C1 *)

\* C1 as stated: a row is PEAK iff price >= price_threshold OR total_load >
\* load_threshold (the 1.0 kW demand-response target), and NORMAL otherwise.
C1_PeakByPriceOrLoad ==
    page = "decision" =>
        (status = PEAK <=> (price >= PriceThreshold \/ total_raw_load > DRTarget))

\* C1 amended: a row is PEAK iff its price (0 without a price column) is at least
\* 0.5, the boundary included, and OFF-PEAK otherwise; its load plays no part.
C1_PeakByPriceAlone ==
    page = "decision" =>
        /\ status \in {PEAK, OFFPEAK}
        /\ status = PEAK <=> Contribution(SelectedRow, "electricity_price") >= 50

\* a row priced exactly at the threshold, with no load to speak of, is PEAK
C1_Witness ==
    /\ page = "decision"
    /\ price = 50
    /\ status = PEAK
    /\ total_raw_load <= 0

----------------------------------------------------------------------------
(* C2 *)

\* C2: for every PEAK row shed_amount = 0.7 x (Heater + Washing Machine) and
\* optimized_load = max(0, raw_total_load - shed_amount).
C2_ShedAndClamp ==
    (page = "decision" /\ status = PEAK) =>
        /\ 10 * reduction = 7 * (Contribution(SelectedRow, "Heater")
                                 + Contribution(SelectedRow, "Washing Machine"))
        /\ optimized_load = Max(0, total_raw_load - reduction)

----------------------------------------------------------------------------
(* C3 *)

\* C3: a row whose raw total load is negative yields no decision (the policy
\* fails with an InvariantViolation instead).
C3_NegativeLoadRejected ==
    (page # "blank" /\ csv # <<>> /\ CanonicalTotal(SelectedRow) < 0) =>
        page = "InvariantViolation"

----------------------------------------------------------------------------
(* C4 *)

\* C4: the forecast has exactly 24 rows, row i at last_timestamp + i hours,
\* strictly increasing, and every hour of day 0..23 is in exactly one row; in
\* the frame the run builds and in the file it writes.
C4_NextDayHours ==
    /\ pc \in {"occupancy", "price", "predict"} => NextDay(future_df, history.last)
    /\ csv # <<>> => NextDay(Artifact, history.last)

\* a forecast written for a history that ends at 23:30: it wraps midnight
C4_Witness ==
    /\ csv # <<>>
    /\ history.last = 23 * 60 + 30
    /\ Artifact[1]["hour"] = 0
    /\ Artifact[24]["hour"] = 23

----------------------------------------------------------------------------
(* C5 *)

\* C5: the total load the decision uses is the sum of the row's per-appliance
\* loads over the canonical set, an absent column counting zero and never
\* stopping the page; the Heater and Washing Machine values that are shed are
\* the ones counted in that total.
C5_TotalIsSumOfBreakdown ==
    /\ (page # "blank" /\ csv # <<>>) => page = "decision"
    /\ page = "decision" =>
        /\ total_raw_load = CanonicalTotal(SelectedRow)
        /\ status = PEAK =>
              10 * reduction = 7 * (Contribution(SelectedRow, "Heater")
                                    + Contribution(SelectedRow, "Washing Machine"))

\* a PEAK row without a Heater column whose Washing Machine is shed
C5_Witness ==
    /\ page = "decision"
    /\ status = PEAK
    /\ "Heater" \notin DOMAIN SelectedRow
    /\ "Washing Machine" \in DOMAIN SelectedRow
    /\ "Fridge" \notin DOMAIN SelectedRow
    /\ reduction = 70
    /\ total_raw_load = 200

----------------------------------------------------------------------------
(* C6 *)

\* C6: every forecast row's price is the high tariff when its hour of day is in
\* 7..10 or 18..22 and the low tariff otherwise, whatever else the row holds.
C6_TwoLevelTariff ==
    /\ pc = "predict" => TwoTariffs(future_df)
    /\ csv # <<>> => TwoTariffs(Artifact)

\* a written forecast with a row at 10:30 (high) and one at 11:30 (low)
C6_Witness ==
    /\ csv # <<>>
    /\ \E i \in 1..23 :
          /\ Artifact[i]["datetime"] % 1440 = 10 * 60 + 30
          /\ Artifact[i]["electricity_price"] = 65
          /\ Artifact[i + 1]["electricity_price"] = 25

----------------------------------------------------------------------------
(* C7 *)

\* C7: the factor reported as the primary driver has a weight at least that of
\* every other factor, each weight being a term of one input of the row
\* (price, total load, occupancy, the slider's hour).
C7_PrimaryDriverIsTop ==
    page = "decision" =>
        /\ contributions = <<45 * Contribution(SelectedRow, "electricity_price"),
                             6 * CanonicalTotal(SelectedRow),
                             300 * (IF "occupancy" \in DOMAIN SelectedRow
                                    THEN SelectedRow["occupancy"] ELSE 1),
                             50 * Abs(12 - hour_idx)>>
        /\ primary \in DOMAIN feat_names
        /\ \A j \in DOMAIN contributions : contributions[j] <= contributions[primary]

\* occupancy is the driver of a row that has a load
C7_Witness ==
    /\ page = "decision"
    /\ feat_names[primary] = "Occupancy"
    /\ total_raw_load > 0

----------------------------------------------------------------------------
(* C8 *)

\* C8: two training runs on the same historical input write identical forecast
\* rows. The script takes no seed and never seeds the generator.
C8_RunsAgree ==
    \A i, j \in DOMAIN csv : csv[i] = csv[j]

----------------------------------------------------------------------------
(* C9 *)

\* C9: for every row of a forecast the training run wrote, and for either
\* status, 0 <= optimized_load <= raw_total_load.
C9_OptimizedWithinBounds ==
    page = "decision" => (0 <= optimized_load /\ optimized_load <= total_raw_load)

\* a PEAK row of a written forecast that sheds load, one of whose raw
\* predictions was below zero before the clamp
C9_Witness ==
    /\ page = "decision"
    /\ status = PEAK
    /\ reduction > 0
    /\ optimized_load < total_raw_load
    /\ \E a \in Range(appliances) :
          /\ row[a] = 0
          /\ XGBPredict(Fit(history)[a], XFuture(row)) < 0

----------------------------------------------------------------------------
(* C10 *)

\* C10: a row of a written forecast is PEAK iff its hour of day is in 7..10 or
\* 18..22, whatever its loads and occupancy; 9 of the 24 rows are PEAK.
C10_PeakIffPeakHour ==
    /\ page = "decision" =>
          (status = PEAK <=> HourOfDay(history.last + 60 * (hour_idx + 1)) \in PeakWindow)
    /\ csv # <<>> =>
          Cardinality({i \in DOMAIN Artifact :
              IsPeak(RowGet(Artifact[i], "electricity_price", 0))}) = 9

\* an off-peak row whose load is above the demand-response target
C10_Witness ==
    /\ page = "decision"
    /\ status = OFFPEAK
    /\ total_raw_load > DRTarget

====
